---- MODULE Spec2Model ----
\* State-machine model of the PDF translation client:
\*   App.processPDF (page pipeline orchestrator), the React state it writes
\*   (appState, translatedPages, progress, apiConfig, isSettingsOpen) and the
\*   two provider adapters of services/aiService (translateWithOpenAI,
\*   translateWithDeepLX) with their retry loops.
\*
\* Granularity: one action per synchronous segment of an async function, i.e.
\* the code between two awaits. All setState calls of one segment are applied
\* together (React batches the updates of one synchronous segment), so a state
\* of the model is a state a render can observe.
EXTENDS Integers, Sequences, FiniteSets, TLC

\* ---------------------------------------------------------------- bounds
MaxPages == 2          \* largest page count of an uploaded document
MaxRuns == 2           \* number of processPDF runs explored

\* ------------------------------------------------------- program constants
\* (faulty variant: one attempt too many)
MAX_RETRIES_Mut == 3 + 1
MAX_RETRIES == 3       \* translateWithOpenAI / translateWithDeepLX
BASE_DELAY_MS == 1000  \* factor of both backoff delays

\* ------------------------------------------------------------ value domains
Providers == {"openai", "deeplx"}

\* ApiConfig values the settings dialog can save: per provider, one that
\* passes the validation of processPDF and one that does not (vision: empty
\* apiKey; text: empty baseUrl). modelName plays no role in control flow.
Configs ==
    [provider : {"openai"}, baseUrl : {"https://api.openai.com/v1"},
     apiKey : {"", "sk-key"}, modelName : {"gpt-4o"}]
        \cup [provider : {"deeplx"}, baseUrl : {"", " http://deeplx.local/translate/ "},
              apiKey : {""}, modelName : {"gpt-4o"}]

\* Initial apiConfig when nothing is persisted.
DefaultConfig ==
    [provider |-> "openai", baseUrl |-> "https://api.openai.com/v1",
     apiKey |-> "", modelName |-> "gpt-4o"]

NoConfig ==
    [provider |-> "none", baseUrl |-> "", apiKey |-> "", modelName |-> ""]

\* Image payload returned by renderPageToImage (a JPEG data URL).
Images == {"data:image/jpeg;base64,AAAA"}

\* Text returned by extractPageText, as a sequence of characters.
Texts == {<<>>, <<" ">>, <<"\n", "\t">>, <<"a">>, <<" ", "a">>}

\* HTML an adapter resolves with for a successful response (the vision
\* adapter's text after its fence and entity cleanup, the text adapter's
\* wrapper around the translated string).
Htmls == {"<p>translated</p>"}

\* What translateWithOpenAI resolves with: content that is not empty but
\* holds only white space or only a fence is cleaned to the empty string.
OpenAIHtmls == Htmls \cup {""}

\* The fixed placeholder of translateWithDeepLX for blank text.
NO_TEXT_HTML == "<p><i>(No text content found on this page)</i></p>"

\* ------------------------------------------------------------------ errors
\* An Error object: kind and (for the vision adapter's HTTP errors only) the
\* status property; attempt tells the objects of different attempts apart.
NoError == [kind |-> "none", status |-> 0, attempt |-> 0]
NoMessage == [kind |-> "none", status |-> 0]

\* error.message: depends on the kind and the HTTP status, not on the attempt.
Message(e) == [kind |-> e.kind, status |-> e.status]

\* ------------------------------------------------ backend response classes
\* Vision backend: non-OK HTTP statuses, a rejected fetch, a 200 without JSON
\* content type, a 200 with empty content, a 200 with finish_reason
\* content_filter, and a 200 carrying HTML.
OpenAIFailures ==
    [kind : {"http"}, status : {400, 401, 403, 404, 500}]
        \cup [kind : {"network", "nonjson", "empty", "filter"}, status : {0}]

OpenAIResponses == OpenAIFailures \cup [kind : {"html"}, status : {200}]

\* Text backend: non-OK status, rejected fetch, body without a translated
\* string, and a body carrying the translation. The Error objects built from
\* them never carry a status property.
DeepLXFailures ==
    [kind : {"http"}, status : {400, 401, 403, 404, 500}]
        \cup [kind : {"network", "badformat"}, status : {0}]

DeepLXResponses == DeepLXFailures \cup [kind : {"text"}, status : {200}]

\* The Error thrown inside the vision adapter's try block for response r.
OpenAIError(r, k) ==
    [kind |-> r.kind,
     status |-> IF r.kind = "http" THEN r.status ELSE 0,
     attempt |-> k]

\* The Error thrown inside the text adapter's try block: no status property.
DeepLXError(r, k) ==
    [kind |-> IF r.kind = "http" THEN "deeplxhttp" ELSE r.kind,
     status |-> 0, attempt |-> k]

\* ------------------------------------------------------------- pure helpers
\* delay(ms): the promise is resolved by the timer, whatever ms is.
\* (faulty variant: the promise of delay is never resolved)
DelayResolvesMut == FALSE
DelayResolves == TRUE

RECURSIVE Pow2(_)
Pow2(n) == IF n <= 0 THEN 1 ELSE 2 * Pow2(n - 1)

\* delay argument of translateWithOpenAI: 1000 * Math.pow(2, attempt - 1)
\* (faulty variant: exponent attempt instead of attempt - 1)
OpenAIDelayMut(k) == BASE_DELAY_MS * Pow2(k)
OpenAIDelay(k) == BASE_DELAY_MS * Pow2(k - 1)

\* delay argument of translateWithDeepLX: 1000 * attempt
\* (faulty variant: quadratic delay)
DeepLXDelayMut(k) == BASE_DELAY_MS * k * k
DeepLXDelay(k) == BASE_DELAY_MS * k

\* status === 401 || status === 403 || status === 404 || status === 400
\* (faulty variant: 400 missing from the list)
IsFatalMut(e) == e.status \in {401, 403, 404}
IsFatal(e) == e.status \in {401, 403, 404, 400}

\* The white space characters of String.prototype.trim and of \s that occur
\* in the modelled inputs.
WhiteSpace == {" ", "\t", "\n", "\r"}

\* String.prototype.trim on a sequence of characters.
RECURSIVE TrimLeft(_)
TrimLeft(s) ==
    IF s = <<>> THEN s
    ELSE IF Head(s) \in WhiteSpace THEN TrimLeft(Tail(s)) ELSE s

RECURSIVE TrimRight(_)
TrimRight(s) ==
    IF s = <<>> THEN s
    ELSE IF s[Len(s)] \in WhiteSpace
         THEN TrimRight(SubSeq(s, 1, Len(s) - 1))
         ELSE s

Trim(s) == TrimRight(TrimLeft(s))

\* !text || text.trim().length === 0
\* (faulty variant: only the !text test)
IsBlankTextMut(t) == t = <<>>
IsBlankText(t) == t = <<>> \/ Len(Trim(t)) = 0

\* (faulty variant: the fresh pages are already marked as being translated)
InitialPagesMut(n) ==
    [k \in 1..n |->
        [pageNumber |-> k, originalImage |-> "", translatedHtml |-> "",
         status |-> "translating", errorMessage |-> NoMessage]]
\* Array.from({length: totalPages}, ...) of processPDF
InitialPages(n) ==
    [k \in 1..n |->
        [pageNumber |-> k, originalImage |-> "", translatedHtml |-> "",
         status |-> "pending", errorMessage |-> NoMessage]]

\* next[i] = {...next[i], originalImage: imageBase64, status: 'translating'}
\* (i is the 0-based loop index; sequences are 1-based)
\* (faulty variant: copies the stale initialPages instead of prev)
MarkTranslatingMut(pages, idx, img) ==
    [InitialPages(Len(pages)) EXCEPT
        ![idx + 1].originalImage = img, ![idx + 1].status = "translating"]
MarkTranslating(pages, idx, img) ==
    [pages EXCEPT
        ![idx + 1].originalImage = img, ![idx + 1].status = "translating"]

\* next[i] = {...next[i], translatedHtml: translation, status: 'completed'}
\* (faulty variant: the status is not updated)
MarkCompletedMut(pages, idx, html) ==
    [pages EXCEPT ![idx + 1].translatedHtml = html]
MarkCompleted(pages, idx, html) ==
    [pages EXCEPT
        ![idx + 1].translatedHtml = html, ![idx + 1].status = "completed"]

\* next[i] = {...next[i], status: 'error', errorMessage: pageError.message}
\* (faulty variant: the status is not updated)
MarkErrorMut(pages, idx, e) ==
    [pages EXCEPT ![idx + 1].errorMessage = Message(e)]
MarkError(pages, idx, e) ==
    [pages EXCEPT
        ![idx + 1].status = "error", ![idx + 1].errorMessage = Message(e)]

\* setProgress(prev => ({...prev, current: i + 1}))
\* (faulty variant: stores the number of pages left)
ProgressAfterPageMut(prog, idx) ==
    [prog EXCEPT !.current = prog.total - (idx + 1)]
ProgressAfterPage(prog, idx) == [prog EXCEPT !.current = idx + 1]

\* The loop condition i < totalPages.
\* (faulty variant: the body runs at least once, as in a do-while loop)
LoopContinuesMut(idx, total) == idx < total \/ idx = 0
LoopContinues(idx, total) == idx < total

PageIds == 1..(MaxPages + 1)
ZeroCalls == [p \in PageIds |-> 0]

\* ------------------------------------------------- text as character sequences
RECURSIVE Flat(_)
Flat(ps) == IF ps = <<>> THEN <<>> ELSE Head(ps) \o Flat(Tail(ps))

\* All sequences over S of length at most n.
SeqsUpTo(S, n) == UNION {[1..k -> S] : k \in 0..n}

\* String.prototype.endsWith / startsWith
EndsWith(s, suf) ==
    /\ Len(s) >= Len(suf)
    /\ SubSeq(s, Len(s) - Len(suf) + 1, Len(s)) = suf

StartsWith(s, pre) == Len(s) >= Len(pre) /\ SubSeq(s, 1, Len(pre)) = pre

UpperCase == <<"B", "E", "G", "H", "I", "L", "M", "N", "O", "P", "R", "S", "T", "U">>
LowerCase == <<"b", "e", "g", "h", "i", "l", "m", "n", "o", "p", "r", "s", "t", "u">>

\* Case folding of the i flag, for the letters of the patterns.
Lower(c) ==
    IF \E k \in 1..Len(UpperCase) : UpperCase[k] = c
    THEN LowerCase[CHOOSE k \in 1..Len(UpperCase) : UpperCase[k] = c]
    ELSE c

\* A case-insensitive match of the lower-case pattern pat at the start of s.
StartsWithCI(s, pat) ==
    /\ Len(s) >= Len(pat)
    /\ \A k \in 1..Len(pat) : Lower(s[k]) = pat[k]

\* ------------------------------------------------------ endpoint resolution
SLASH == <<"/">>
V1_PATH == <<"/", "v", "1">>
COMPLETIONS_PATH == <<"/", "c", "h", "a", "t", "/", "c", "o", "m", "p", "l", "e", "t", "i", "o", "n", "s">>

\* if (url.endsWith('/')) url = url.slice(0, -1)
\* (faulty variant: the trailing slash is kept)
RemoveTrailingSlashMut(s) == s
RemoveTrailingSlash(s) ==
    IF EndsWith(s, SLASH) THEN SubSeq(s, 1, Len(s) - 1) ELSE s

\* url.endsWith('/chat/completions')
\* (faulty variant: a complete endpoint is not recognised)
IsFullEndpointMut(url) == FALSE
IsFullEndpoint(url) == EndsWith(url, COMPLETIONS_PATH)

\* url.endsWith('/v1')
\* (faulty variant: the version segment is not recognised)
EndsInV1Mut(url) == FALSE
EndsInV1(url) == EndsWith(url, V1_PATH)

\* The "Smart URL Construction Logic" of translateWithOpenAI.
ResolveEndpoint(u) ==
    LET url == RemoveTrailingSlash(Trim(u))
    IN IF IsFullEndpoint(url) THEN url
       ELSE IF EndsInV1(url) THEN url \o COMPLETIONS_PATH
       ELSE url \o V1_PATH \o COMPLETIONS_PATH

\* Base URLs a user can enter, as sequences of pieces.
MaxUrlPieces == 3
HOST == <<"h", "t", "t", "p", "s", ":", "/", "/", "a", "p", "i", ".", "e", "x", "a", "m", "p", "l", "e", ".", "c", "o", "m">>
SPACE == <<" ">>
NEWLINE == <<"\n">>
UrlPieces ==
    {SPACE, HOST, SLASH, V1_PATH, <<"/", "v", "2">>, <<"/", "V", "1">>, <<"v", "1">>,
     <<"/", "c", "h", "a", "t">>, COMPLETIONS_PATH}

\* A host, optionally followed by /v1 or /v1/chat/completions, optionally
\* with one trailing slash and with surrounding white space.
CommonUrls ==
    {<<lead, HOST, path, slash, trail>> :
        lead \in {<<>>, SPACE}, path \in {<<>>, V1_PATH, V1_PATH \o COMPLETIONS_PATH},
        slash \in {<<>>, SLASH}, trail \in {<<>>, SPACE}}

UrlInputs == SeqsUpTo(UrlPieces, MaxUrlPieces) \cup CommonUrls

\* -------------------------------------------------------- response cleanup
\* The character U+0060, which a TLA+ string cannot hold.
BACKTICK == "backtick"
FENCE == <<BACKTICK, BACKTICK, BACKTICK>>
FENCE_HTML == <<BACKTICK, BACKTICK, BACKTICK, "h", "t", "m", "l">>
LT == <<"&", "l", "t", ";">>
LT_SLASH == <<"&", "l", "t", ";", "/">>
GT == <<"&", "g", "t", ";">>

\* text.replace(/^```html\s*/i, '')
StripOpenHtmlFence(s) ==
    IF StartsWithCI(s, FENCE_HTML)
    THEN TrimLeft(SubSeq(s, Len(FENCE_HTML) + 1, Len(s)))
    ELSE s

\* .replace(/^```\s*/i, '')
StripOpenFence(s) ==
    IF StartsWith(s, FENCE)
    THEN TrimLeft(SubSeq(s, Len(FENCE) + 1, Len(s)))
    ELSE s

\* Positions where /```\s*$/ matches: a fence followed by white space only.
CloseFenceAt(s) ==
    {p \in 1..Len(s) :
        /\ StartsWith(SubSeq(s, p, Len(s)), FENCE)
        /\ \A k \in (p + Len(FENCE))..Len(s) : s[k] \in WhiteSpace}

\* .replace(/```\s*$/i, ''): the leftmost match is removed.
StripCloseFence(s) ==
    IF CloseFenceAt(s) = {} THEN s
    ELSE LET p == CHOOSE p \in CloseFenceAt(s) :
                      \A q \in CloseFenceAt(s) : p <= q
         IN SubSeq(s, 1, p - 1)

\* The three replaces and the trim of the fence cleanup.
StripFences(s) ==
    Trim(StripCloseFence(StripOpenFence(StripOpenHtmlFence(s))))

\* (sup|sub|b|i|strong|em)
TagNames ==
    {<<"s", "u", "p">>, <<"s", "u", "b">>, <<"b">>, <<"i">>, <<"s", "t", "r", "o", "n", "g">>, <<"e", "m">>}

\* s.replace(/<pre>(sup|sub|b|i|strong|em)&gt;/gi, '<lit>$1>'), where pre is
\* &lt; or &lt;/ and lit is < or </: matches are replaced from left to right,
\* the matched name is copied as written.
RECURSIVE ReplaceEscaped(_, _, _)
ReplaceEscaped(s, pre, lit) ==
    IF s = <<>> THEN <<>>
    ELSE LET ms == {n \in TagNames : StartsWithCI(s, pre \o n \o GT)}
         IN IF ms # {}
            THEN LET n == CHOOSE n \in ms : TRUE
                     len == Len(pre) + Len(n) + Len(GT)
                 IN lit \o SubSeq(s, Len(pre) + 1, Len(pre) + Len(n)) \o <<">">>
                        \o ReplaceEscaped(SubSeq(s, len + 1, Len(s)), pre, lit)
            ELSE <<Head(s)>> \o ReplaceEscaped(Tail(s), pre, lit)

\* The two replaces that unescape the formatting tags.
\* (faulty variant: the closing tags are not unescaped)
UnescapeTagsMut(s) == ReplaceEscaped(s, LT, <<"<">>)
UnescapeTags(s) ==
    ReplaceEscaped(ReplaceEscaped(s, LT, <<"<">>), LT_SLASH, <<"<", "/">>)

\* The cleanup of a completion text by translateWithOpenAI.
CleanResponse(s) == UnescapeTags(StripFences(s))

\* Completion texts, as sequences of pieces.
MaxTagPieces == 2

\* Escaped tags of the allow list, opening and closing, and one in capitals.
EscapedAllowed ==
    {LT \o n \o GT : n \in TagNames} \cup {LT_SLASH \o n \o GT : n \in TagNames}
        \cup {<<"&", "L", "T", ";", "S", "U", "P", "&", "G", "T", ";">>}

\* Escaped tags with other names, a literal tag and plain text.
OtherPieces ==
    {<<"&", "l", "t", ";", "d", "i", "v", "&", "g", "t", ";">>, <<"&", "l", "t", ";", "/", "d", "i", "v", "&", "g", "t", ";">>, <<"&", "l", "t", ";", "b", "r", "&", "g", "t", ";">>, <<"&", "l", "t", ";", "u", "&", "g", "t", ";">>, <<"<", "s", "u", "p", ">">>, <<"1", "7">>}

TagInputs == SeqsUpTo(EscapedAllowed \cup OtherPieces, MaxTagPieces)

\* A body wrapped in an opening and a closing fence, with optional white
\* space around the fences.
FencedInputs ==
    {<<lead, open, gap, body, gap2, FENCE, trail>> :
        lead \in {<<>>, SPACE, NEWLINE},
        open \in {FENCE, FENCE_HTML, <<BACKTICK, BACKTICK, BACKTICK, "H", "T", "M", "L">>},
        gap \in {<<>>, NEWLINE},
        body \in {<<"<", "p", ">", "x", "<", "/", "p", ">">>, <<"&", "l", "t", ";", "b", "&", "g", "t", ";", "x", "&", "l", "t", ";", "/", "b", "&", "g", "t", ";">>},
        gap2 \in {<<>>, NEWLINE},
        trail \in {<<>>, NEWLINE}}

\* Content that is not empty but holds only white space or only fences.
BlankInputs ==
    {<<SPACE>>, <<NEWLINE>>, <<FENCE>>, <<FENCE_HTML, NEWLINE, FENCE>>}

ResponseInputs == TagInputs \cup FencedInputs \cup BlankInputs

\* --------------------------------------------------------------- variables
VARIABLES
    \* React state of App
    appState,         \* AppState
    translatedPages,  \* TranslatedPage[]
    progress,         \* {current, total}
    isSettingsOpen,
    apiConfig,
    \* the running processPDF call: position and locals
    pc,               \* see PcValues
    cfg,              \* apiConfig captured by the processPDF closure
    pdf,              \* "none" until loadPdf has resolved, then "doc"
    totalPages,
    i,                \* loop index, 0-based
    imageBase64,
    textData,
    \* the running adapter call: locals and outcome
    attempt,
    lastError,
    returned,         \* HTML the last adapter call resolved with, "" if none
    raised,           \* Error the last adapter call rejected with
    \* what the collaborators have seen (observations, never read by the code)
    runs,             \* processPDF runs that entered PROCESSING
    loadCalls,        \* loadPdf calls of the current run
    renderCalls,      \* renderPageToImage calls per page of the current run
    adapterCalls,     \* translatePageContent calls per page of the current run
    failed,           \* pages whose translatePageContent call rejected
    requests,         \* fetch calls of the current adapter call
    sleeps,           \* delay arguments of the current adapter call, in order
    responses,        \* errors caught by the current adapter call, in order
    endpoint,         \* URL of the fetch calls of the current adapter call
    rejectedCall,     \* TRUE when the last step was a processPDF call that
                      \* ended at a validation guard
    \* the text functions of the vision adapter, applied on their own
    fnName,           \* "none" until a function has been applied
    fnIn,             \* the argument, as a sequence of pieces of text
    fnOut,            \* the result, as a sequence of characters
    fnFinish          \* choices[0].finish_reason of the completion

appVars == <<appState, translatedPages, progress, isSettingsOpen, apiConfig>>
runVars == <<pc, cfg, pdf, totalPages, i, imageBase64, textData>>
adapterVars == <<attempt, lastError, returned, raised>>
runObs == <<runs, loadCalls, renderCalls, adapterCalls, failed>>
adapterObs == <<requests, sleeps, responses, endpoint>>
fnVars == <<fnName, fnIn, fnOut, fnFinish>>
vars == <<appVars, runVars, adapterVars, runObs, adapterObs, rejectedCall, fnVars>>

\* -------------------------------------------------------------------- Init
\* A provider field that is absent from the persisted JSON.
MISSING == "undefined"

\* The initializer of the apiConfig state.
\* (faulty variant: the parsed object is returned as it is)
LoadConfigMut(saved) ==
    IF saved.present
    THEN [provider |-> saved.provider, baseUrl |-> saved.baseUrl,
          apiKey |-> saved.apiKey, modelName |-> saved.modelName]
    ELSE DefaultConfig
LoadConfig(saved) ==
    IF saved.present
    THEN [provider |-> IF saved.provider \in {MISSING, ""}
                       THEN "openai" ELSE saved.provider,
          baseUrl |-> saved.baseUrl, apiKey |-> saved.apiKey,
          modelName |-> saved.modelName]
    ELSE DefaultConfig

\* What localStorage holds when the app starts: nothing, or an object left by
\* another build of the app whose provider is neither 'openai' nor 'deeplx'
\* and whose API key is empty (JSON.parse does not check the ApiConfig type).
StoredAtStart ==
    {[present |-> FALSE, provider |-> MISSING, baseUrl |-> "",
      apiKey |-> "", modelName |-> ""],
     [present |-> TRUE, provider |-> "gemini",
      baseUrl |-> "https://api.openai.com/v1", apiKey |-> "",
      modelName |-> "gpt-4o"]}

InitApp ==
    /\ appState = "IDLE"
    /\ translatedPages = <<>>
    /\ progress = [current |-> 0, total |-> 0]
    /\ isSettingsOpen = FALSE
    /\ \E saved \in StoredAtStart : apiConfig = LoadConfig(saved)
    /\ pc = "idle"
    /\ cfg = NoConfig
    /\ pdf = "none"
    /\ totalPages = 0
    /\ i = 0
    /\ imageBase64 = ""
    /\ textData = <<>>
    /\ attempt = 0
    /\ lastError = NoError
    /\ returned = ""
    /\ raised = NoError
    /\ runs = 0
    /\ loadCalls = 0
    /\ renderCalls = ZeroCalls
    /\ adapterCalls = ZeroCalls
    /\ failed = {}
    /\ requests = 0
    /\ sleeps = <<>>
    /\ responses = <<>>
    /\ endpoint = <<>>
    /\ rejectedCall = FALSE

Init ==
    /\ InitApp
    /\ fnName = "none"
    /\ fnIn = <<>>
    /\ fnOut = <<>>
    /\ fnFinish = "stop"

\* ---------------------------------------------------------------- settings
\* Settings button of the header: onClick={() => setIsSettingsOpen(true)}
OpenSettings ==
    /\ UNCHANGED fnVars
    /\ rejectedCall' = FALSE
    /\ ~isSettingsOpen
    /\ isSettingsOpen' = TRUE
    /\ UNCHANGED <<appState, translatedPages, progress, apiConfig>>
    /\ UNCHANGED <<runVars, adapterVars, runObs, adapterObs>>

\* SettingsModal.handleSave -> App.handleSaveSettings, then onClose
\* (faulty variant: the running processPDF reads the saved configuration)
SaveSettingsMut ==
    /\ UNCHANGED fnVars
    /\ rejectedCall' = FALSE
    /\ isSettingsOpen
    /\ \E c \in Configs : apiConfig' = c /\ cfg' = c
    /\ isSettingsOpen' = FALSE
    /\ UNCHANGED <<appState, translatedPages, progress>>
    /\ UNCHANGED <<pc, pdf, totalPages, i, imageBase64, textData>>
    /\ UNCHANGED <<adapterVars, runObs, adapterObs>>
SaveSettings ==
    /\ UNCHANGED fnVars
    /\ rejectedCall' = FALSE
    /\ isSettingsOpen
    /\ \E c \in Configs : apiConfig' = c
    /\ isSettingsOpen' = FALSE
    /\ UNCHANGED <<appState, translatedPages, progress>>
    /\ UNCHANGED <<runVars, adapterVars, runObs, adapterObs>>

\* SettingsModal close button: onClose={() => setIsSettingsOpen(false)}
CloseSettings ==
    /\ UNCHANGED fnVars
    /\ rejectedCall' = FALSE
    /\ isSettingsOpen
    /\ isSettingsOpen' = FALSE
    /\ UNCHANGED <<appState, translatedPages, progress, apiConfig>>
    /\ UNCHANGED <<runVars, adapterVars, runObs, adapterObs>>

\* ------------------------------------------------------------- processPDF
\* The FileUploader is rendered only in IDLE and ERROR.
\* (faulty variant: the uploader is rendered in every app state)
CanUploadMut == TRUE
CanUpload == appState \in {"IDLE", "ERROR"}

\* (faulty variant: only the key guard, the endpoint guard is missing)
ConfigRejectedMut(c) == c.provider = "openai" /\ c.apiKey = ""
\* The two validation guards at the head of processPDF.
ConfigRejected(c) ==
    \/ (c.provider = "openai" /\ c.apiKey = "")
    \/ (c.provider = "deeplx" /\ c.baseUrl = "")

\* processPDF called with a rejected configuration: alert, open settings.
StartRejected ==
    /\ UNCHANGED fnVars
    /\ rejectedCall' = TRUE
    /\ CanUpload
    /\ ConfigRejected(apiConfig)
    /\ isSettingsOpen' = TRUE
    /\ UNCHANGED <<appState, translatedPages, progress, apiConfig>>
    /\ UNCHANGED <<runVars, adapterVars, runObs, adapterObs>>

\* processPDF up to `await loadPdf(file)`.
\* (faulty variant: setTranslatedPages([]) left out)
StartRunMut ==
    /\ UNCHANGED fnVars
    /\ rejectedCall' = FALSE
    /\ CanUpload
    /\ ~ConfigRejected(apiConfig)
    /\ runs < MaxRuns
    /\ appState' = "PROCESSING"
    /\ pc' = "load"
    /\ cfg' = apiConfig
    /\ pdf' = "none"
    /\ runs' = runs + 1
    /\ loadCalls' = 1
    /\ renderCalls' = ZeroCalls
    /\ adapterCalls' = ZeroCalls
    /\ failed' = {}
    /\ totalPages' = 0
    /\ i' = 0
    /\ UNCHANGED <<translatedPages, progress, isSettingsOpen, apiConfig>>
    /\ UNCHANGED <<imageBase64, textData, adapterVars, adapterObs>>
StartRun ==
    /\ UNCHANGED fnVars
    /\ rejectedCall' = FALSE
    /\ CanUpload
    /\ ~ConfigRejected(apiConfig)
    /\ runs < MaxRuns
    /\ appState' = "PROCESSING"
    /\ translatedPages' = <<>>
    /\ pc' = "load"
    /\ cfg' = apiConfig
    /\ pdf' = "none"
    /\ runs' = runs + 1
    /\ loadCalls' = 1
    /\ renderCalls' = ZeroCalls
    /\ adapterCalls' = ZeroCalls
    /\ failed' = {}
    /\ totalPages' = 0
    /\ i' = 0
    /\ UNCHANGED <<progress, isSettingsOpen, apiConfig>>
    /\ UNCHANGED <<imageBase64, textData, adapterVars, adapterObs>>

\* loadPdf rejects: the outer catch sets ERROR.
LoadFail ==
    /\ UNCHANGED fnVars
    /\ rejectedCall' = FALSE
    /\ pc = "load"
    /\ appState' = "ERROR"
    /\ pc' = "idle"
    /\ UNCHANGED <<translatedPages, progress, isSettingsOpen, apiConfig>>
    /\ UNCHANGED <<cfg, pdf, totalPages, i, imageBase64, textData>>
    /\ UNCHANGED <<adapterVars, runObs, adapterObs>>

\* loadPdf resolves with a document of n pages: progress and the placeholder
\* pages are set, then the loop requests the first render, or, with no page,
\* the run completes.
LoadOk ==
    /\ UNCHANGED fnVars
    /\ rejectedCall' = FALSE
    /\ pc = "load"
    /\ \E n \in 0..MaxPages :
        /\ pdf' = "doc"
        /\ totalPages' = n
        /\ progress' = [current |-> 0, total |-> n]
        /\ translatedPages' = InitialPages(n)
        /\ i' = 0
        /\ IF LoopContinues(0, n)
           THEN /\ pc' = "render"
                /\ appState' = appState
                /\ renderCalls' = [renderCalls EXCEPT ![1] = @ + 1]
           ELSE /\ pc' = "idle"
                /\ appState' = "COMPLETED"
                /\ renderCalls' = renderCalls
    /\ UNCHANGED <<isSettingsOpen, apiConfig, cfg, imageBase64, textData>>
    /\ UNCHANGED <<runs, loadCalls, adapterCalls, failed>>
    /\ UNCHANGED <<adapterVars, adapterObs>>

\* renderPageToImage or (text mode) extractPageText rejects inside the loop:
\* neither call is inside the per-page try, so the outer catch sets ERROR.
RenderFail ==
    /\ UNCHANGED fnVars
    /\ rejectedCall' = FALSE
    /\ pc = "render"
    /\ appState' = "ERROR"
    /\ pc' = "idle"
    /\ UNCHANGED <<translatedPages, progress, isSettingsOpen, apiConfig>>
    /\ UNCHANGED <<cfg, pdf, totalPages, i, imageBase64, textData>>
    /\ UNCHANGED <<adapterVars, runObs, adapterObs>>

ExtractFail ==
    /\ UNCHANGED fnVars
    /\ rejectedCall' = FALSE
    /\ pc = "extract"
    /\ appState' = "ERROR"
    /\ pc' = "idle"
    /\ imageBase64' = ""
    /\ UNCHANGED <<translatedPages, progress, isSettingsOpen, apiConfig>>
    /\ UNCHANGED <<cfg, pdf, totalPages, i, textData>>
    /\ UNCHANGED <<adapterVars, runObs, adapterObs>>

\* ---------------------------------------------------------------- adapters
\* const endpoint = config.baseUrl || 'http://localhost:1188/translate'
DEFAULT_DEEPLX_URL == "http://localhost:1188/translate"
DeepLXEndpoint(c) == IF c.baseUrl = "" THEN DEFAULT_DEEPLX_URL ELSE c.baseUrl

\* The endpoint of the vision adapter: the resolution (ResolveEndpoint) of
\* the base URL, kept as the pair of the word "resolved" and its argument.
OpenAIEndpoint(c) == <<"resolved", c.baseUrl>>

\* (faulty variant: the key is checked after the endpoint was resolved and
\* the first request was sent)
InvokeOpenAIMut ==
    /\ sleeps' = <<>>
    /\ responses' = <<>>
    /\ lastError' = NoError
    /\ returned' = ""
    /\ requests' = 1
    /\ endpoint' = OpenAIEndpoint(cfg)
    /\ IF cfg.apiKey = ""
       THEN /\ raised' = [kind |-> "nokey", status |-> 0, attempt |-> 0]
            /\ failed' = failed \cup {i + 1}
            /\ attempt' = 0
            /\ pc' = "settled"
       ELSE /\ raised' = NoError
            /\ failed' = failed
            /\ attempt' = 1
            /\ pc' = "fetch"
\* translateWithOpenAI up to its first await: the missing-key check, then the
\* first fetch.
InvokeOpenAI ==
    /\ sleeps' = <<>>
    /\ responses' = <<>>
    /\ lastError' = NoError
    /\ returned' = ""
    /\ IF cfg.apiKey = ""
       THEN /\ raised' = [kind |-> "nokey", status |-> 0, attempt |-> 0]
            /\ failed' = failed \cup {i + 1}
            /\ requests' = 0
            /\ endpoint' = <<>>
            /\ attempt' = 0
            /\ pc' = "settled"
       ELSE /\ raised' = NoError
            /\ failed' = failed
            /\ requests' = 1
            /\ endpoint' = OpenAIEndpoint(cfg)
            /\ attempt' = 1
            /\ pc' = "fetch"

\* translateWithDeepLX up to its first await: the blank-text short circuit,
\* then the first fetch.
InvokeDeepLX(text) ==
    /\ sleeps' = <<>>
    /\ responses' = <<>>
    /\ lastError' = NoError
    /\ raised' = NoError
    /\ failed' = failed
    /\ IF IsBlankText(text)
       THEN /\ returned' = NO_TEXT_HTML
            /\ requests' = 0
            /\ endpoint' = <<>>
            /\ attempt' = 0
            /\ pc' = "settled"
       ELSE /\ returned' = ""
            /\ requests' = 1
            /\ endpoint' = <<DeepLXEndpoint(cfg)>>
            /\ attempt' = 1
            /\ pc' = "fetch"

\* if (config.provider === 'deeplx') ... else ...
AdapterFor(c) == IF c.provider = "deeplx" THEN "deeplx" ELSE "openai"

\* translatePageContent(base64Image, textData, config): the provider switch.
\* text is textData || ''.
TranslatePageContent(text) ==
    /\ adapterCalls' = [adapterCalls EXCEPT ![i + 1] = @ + 1]
    /\ IF AdapterFor(cfg) = "deeplx" THEN InvokeDeepLX(text) ELSE InvokeOpenAI

\* renderPageToImage resolves. In text mode the loop awaits extractPageText
\* next; otherwise it marks the page translating and calls the adapter.
\* (faulty variant: the adapter is called without the page being marked)
RenderOkMut ==
    /\ UNCHANGED fnVars
    /\ rejectedCall' = FALSE
    /\ pc = "render"
    /\ \E img \in Images :
        /\ imageBase64' = img
        /\ IF cfg.provider = "deeplx"
           THEN /\ pc' = "extract"
                /\ UNCHANGED <<translatedPages, adapterVars, adapterObs>>
                /\ UNCHANGED <<adapterCalls, failed>>
           ELSE /\ translatedPages' = translatedPages
                /\ TranslatePageContent(<<>>)
    /\ UNCHANGED <<appState, progress, isSettingsOpen, apiConfig>>
    /\ UNCHANGED <<cfg, pdf, totalPages, i, textData>>
    /\ UNCHANGED <<runs, loadCalls, renderCalls>>
RenderOk ==
    /\ UNCHANGED fnVars
    /\ rejectedCall' = FALSE
    /\ pc = "render"
    /\ \E img \in Images :
        /\ imageBase64' = img
        /\ IF cfg.provider = "deeplx"
           THEN /\ pc' = "extract"
                /\ UNCHANGED <<translatedPages, adapterVars, adapterObs>>
                /\ UNCHANGED <<adapterCalls, failed>>
           ELSE /\ translatedPages' = MarkTranslating(translatedPages, i, img)
                /\ TranslatePageContent(<<>>)
    /\ UNCHANGED <<appState, progress, isSettingsOpen, apiConfig>>
    /\ UNCHANGED <<cfg, pdf, totalPages, i, textData>>
    /\ UNCHANGED <<runs, loadCalls, renderCalls>>

\* extractPageText resolves: the page is marked translating and the adapter
\* is called with the text.
ExtractOk ==
    /\ UNCHANGED fnVars
    /\ rejectedCall' = FALSE
    /\ pc = "extract"
    /\ \E t \in Texts :
        /\ textData' = t
        /\ translatedPages' = MarkTranslating(translatedPages, i, imageBase64)
        /\ TranslatePageContent(t)
    /\ UNCHANGED <<appState, progress, isSettingsOpen, apiConfig>>
    /\ UNCHANGED <<cfg, pdf, totalPages, i, imageBase64>>
    /\ UNCHANGED <<runs, loadCalls, renderCalls>>

\* One attempt of translateWithOpenAI settles: fetch and the response checks
\* of the try block, then the catch block.
\* (faulty variant: a content-filter rejection ends the call at once)
OpenAIResponseMut ==
    /\ UNCHANGED fnVars
    /\ rejectedCall' = FALSE
    /\ pc = "fetch"
    /\ cfg.provider # "deeplx"
    /\ \E r \in OpenAIResponses :
        IF r.kind = "html"
        THEN /\ \E h \in OpenAIHtmls : returned' = h
             /\ pc' = "settled"
             /\ UNCHANGED <<lastError, raised, failed, sleeps, responses>>
        ELSE LET e == OpenAIError(r, attempt) IN
             /\ responses' = Append(responses, e)
             /\ returned' = returned
             /\ IF IsFatal(e)
                THEN /\ raised' = e
                     /\ failed' = failed \cup {i + 1}
                     /\ pc' = "settled"
                     /\ UNCHANGED <<lastError, sleeps>>
                ELSE /\ lastError' = e
                     /\ IF attempt < MAX_RETRIES /\ r.kind # "filter"
                        THEN /\ sleeps' = Append(sleeps, OpenAIDelay(attempt))
                             /\ pc' = "sleep"
                             /\ UNCHANGED <<raised, failed>>
                        ELSE /\ raised' = lastError'
                             /\ failed' = failed \cup {i + 1}
                             /\ pc' = "settled"
                             /\ sleeps' = sleeps
    /\ UNCHANGED <<appVars, cfg, pdf, totalPages, i, imageBase64, textData>>
    /\ UNCHANGED <<attempt, requests, endpoint, runs, loadCalls, renderCalls, adapterCalls>>
OpenAIResponse ==
    /\ UNCHANGED fnVars
    /\ rejectedCall' = FALSE
    /\ pc = "fetch"
    /\ cfg.provider # "deeplx"
    /\ \E r \in OpenAIResponses :
        IF r.kind = "html"
        THEN /\ \E h \in OpenAIHtmls : returned' = h
             /\ pc' = "settled"
             /\ UNCHANGED <<lastError, raised, failed, sleeps, responses>>
        ELSE LET e == OpenAIError(r, attempt) IN
             /\ responses' = Append(responses, e)
             /\ returned' = returned
             /\ IF IsFatal(e)
                THEN /\ raised' = e
                     /\ failed' = failed \cup {i + 1}
                     /\ pc' = "settled"
                     /\ UNCHANGED <<lastError, sleeps>>
                ELSE /\ lastError' = e
                     /\ IF attempt < MAX_RETRIES
                        THEN /\ sleeps' = Append(sleeps, OpenAIDelay(attempt))
                             /\ pc' = "sleep"
                             /\ UNCHANGED <<raised, failed>>
                        ELSE /\ raised' = lastError'
                             /\ failed' = failed \cup {i + 1}
                             /\ pc' = "settled"
                             /\ sleeps' = sleeps
    /\ UNCHANGED <<appVars, cfg, pdf, totalPages, i, imageBase64, textData>>
    /\ UNCHANGED <<attempt, requests, endpoint, runs, loadCalls, renderCalls, adapterCalls>>

\* One attempt of translateWithDeepLX settles.
\* (faulty variant: statuses 400, 401, 403 and 404 end the call at once)
DeepLXResponseMut ==
    /\ UNCHANGED fnVars
    /\ rejectedCall' = FALSE
    /\ pc = "fetch"
    /\ cfg.provider = "deeplx"
    /\ \E r \in DeepLXResponses :
        IF r.kind = "text"
        THEN /\ \E h \in Htmls : returned' = h
             /\ pc' = "settled"
             /\ UNCHANGED <<lastError, raised, failed, sleeps, responses>>
        ELSE LET e == DeepLXError(r, attempt) IN
             /\ responses' = Append(responses, e)
             /\ returned' = returned
             /\ lastError' = e
             /\ IF attempt < MAX_RETRIES /\ r.status \notin {400, 401, 403, 404}
                THEN /\ sleeps' = Append(sleeps, DeepLXDelay(attempt))
                     /\ pc' = "sleep"
                     /\ UNCHANGED <<raised, failed>>
                ELSE /\ raised' = lastError'
                     /\ failed' = failed \cup {i + 1}
                     /\ pc' = "settled"
                     /\ sleeps' = sleeps
    /\ UNCHANGED <<appVars, cfg, pdf, totalPages, i, imageBase64, textData>>
    /\ UNCHANGED <<attempt, requests, endpoint, runs, loadCalls, renderCalls, adapterCalls>>
DeepLXResponse ==
    /\ UNCHANGED fnVars
    /\ rejectedCall' = FALSE
    /\ pc = "fetch"
    /\ cfg.provider = "deeplx"
    /\ \E r \in DeepLXResponses :
        IF r.kind = "text"
        THEN /\ \E h \in Htmls : returned' = h
             /\ pc' = "settled"
             /\ UNCHANGED <<lastError, raised, failed, sleeps, responses>>
        ELSE LET e == DeepLXError(r, attempt) IN
             /\ responses' = Append(responses, e)
             /\ returned' = returned
             /\ lastError' = e
             /\ IF attempt < MAX_RETRIES
                THEN /\ sleeps' = Append(sleeps, DeepLXDelay(attempt))
                     /\ pc' = "sleep"
                     /\ UNCHANGED <<raised, failed>>
                ELSE /\ raised' = lastError'
                     /\ failed' = failed \cup {i + 1}
                     /\ pc' = "settled"
                     /\ sleeps' = sleeps
    /\ UNCHANGED <<appVars, cfg, pdf, totalPages, i, imageBase64, textData>>
    /\ UNCHANGED <<attempt, requests, endpoint, runs, loadCalls, renderCalls, adapterCalls>>

\* The backoff delay of either adapter elapses: attempt++ and the next fetch.
SleepDone ==
    /\ UNCHANGED fnVars
    /\ rejectedCall' = FALSE
    /\ pc = "sleep"
    /\ DelayResolves
    /\ attempt' = attempt + 1
    /\ requests' = requests + 1
    /\ endpoint' = endpoint
    /\ pc' = "fetch"
    /\ UNCHANGED <<appVars, cfg, pdf, totalPages, i, imageBase64, textData>>
    /\ UNCHANGED <<lastError, returned, raised, sleeps, responses, runObs>>

\* processPDF after `await translatePageContent(...)`: the page is marked
\* completed or error, progress advances, and the loop either requests the
\* next render or leaves and sets COMPLETED. The locals of the iteration and
\* of the settled adapter call go out of scope.
PageSettled ==
    /\ UNCHANGED fnVars
    /\ rejectedCall' = FALSE
    /\ pc = "settled"
    /\ translatedPages' =
           IF raised = NoError
           THEN MarkCompleted(translatedPages, i, returned)
           ELSE MarkError(translatedPages, i, raised)
    /\ progress' = ProgressAfterPage(progress, i)
    /\ i' = i + 1
    /\ IF LoopContinues(i + 1, totalPages)
       THEN /\ pc' = "render"
            /\ appState' = appState
            /\ renderCalls' = [renderCalls EXCEPT ![i + 2] = @ + 1]
       ELSE /\ pc' = "idle"
            /\ appState' = "COMPLETED"
            /\ renderCalls' = renderCalls
    /\ imageBase64' = ""
    /\ textData' = <<>>
    /\ attempt' = 0
    /\ lastError' = NoError
    /\ returned' = ""
    /\ raised' = NoError
    /\ requests' = 0
    /\ endpoint' = <<>>
    /\ sleeps' = <<>>
    /\ responses' = <<>>
    /\ UNCHANGED <<isSettingsOpen, apiConfig, cfg, pdf, totalPages>>
    /\ UNCHANGED <<runs, loadCalls, adapterCalls, failed>>

\* The TranslationViewer, which holds the reset button, is rendered only when
\* the app state is neither IDLE, ERROR nor PROCESSING.
\* (faulty variant: the viewer is rendered in every app state)
CanResetMut == TRUE
CanReset == appState = "COMPLETED"

\* (faulty variant: the reset also clears the page results and the progress)
ResetMut ==
    /\ UNCHANGED fnVars
    /\ rejectedCall' = FALSE
    /\ CanReset
    /\ appState' = "IDLE"
    /\ translatedPages' = <<>>
    /\ progress' = [current |-> 0, total |-> 0]
    /\ UNCHANGED <<isSettingsOpen, apiConfig>>
    /\ UNCHANGED <<runVars, adapterVars, runObs, adapterObs>>
\* TranslationViewer onReset={() => setAppState(AppState.IDLE)}
Reset ==
    /\ UNCHANGED fnVars
    /\ rejectedCall' = FALSE
    /\ CanReset
    /\ appState' = "IDLE"
    /\ UNCHANGED <<translatedPages, progress, isSettingsOpen, apiConfig>>
    /\ UNCHANGED <<runVars, adapterVars, runObs, adapterObs>>

Next ==
    \/ OpenSettings
    \/ SaveSettings
    \/ CloseSettings
    \/ StartRejected
    \/ StartRun
    \/ LoadFail
    \/ LoadOk
    \/ RenderFail
    \/ RenderOk
    \/ ExtractFail
    \/ ExtractOk
    \/ OpenAIResponse
    \/ DeepLXResponse
    \/ SleepDone
    \/ PageSettled
    \/ Reset

Spec == Init /\ [][Next]_vars

\* The continuations of a run: each is the return or the failure of the
\* collaborator call the run is waiting for.
RunStep ==
    \/ LoadFail
    \/ LoadOk
    \/ RenderFail
    \/ RenderOk
    \/ ExtractFail
    \/ ExtractOk
    \/ OpenAIResponse
    \/ DeepLXResponse
    \/ SleepDone
    \/ PageSettled

\* The run under the condition that every pending collaborator call
\* eventually returns or fails.
LiveSpec == Spec /\ WF_vars(RunStep)

PcValues == {"idle", "load", "render", "extract", "fetch", "sleep", "settled"}

TypeOK ==
    /\ appState \in {"IDLE", "PROCESSING", "COMPLETED", "ERROR"}
    /\ pc \in PcValues
    /\ progress \in [current : 0..MaxPages, total : 0..MaxPages]
    /\ Len(translatedPages) <= MaxPages
    /\ attempt \in 0..MAX_RETRIES
    /\ requests \in 0..MAX_RETRIES
    /\ rejectedCall \in BOOLEAN
    /\ fnName \in {"none", "resolved", "resolved2", "cleaned", "selected", "failed",
                  "loaded", "routed"}

\* ------------------------------------------------ the Gemini variant
\* App with services/geminiService: no settings, one provider. The run uses
\* the same React state and the same load and render steps; the adapter and
\* the handling of its outcome differ.

\* Outcomes of ai.models.generateContent: a rejected call (network failure,
\* API error) or a response carrying HTML.
GeminiFailures == [kind : {"network", "api"}, status : {0}]

GeminiResponses == GeminiFailures \cup [kind : {"html"}, status : {200}]

\* The HTML that translatePageContent returns from its outer catch block.
GeminiFailedHtml(e) ==
    IF e.kind = "network"
    THEN "<div><h3>Translation failed</h3><p>Error: network</p></div>"
    ELSE "<div><h3>Translation failed</h3><p>Error: api</p></div>"

\* processPDF up to `await loadPdf(file)`; there is no configuration check.
GeminiStartRun ==
    /\ UNCHANGED fnVars
    /\ rejectedCall' = FALSE
    /\ CanUpload
    /\ runs < MaxRuns
    /\ appState' = "PROCESSING"
    /\ translatedPages' = <<>>
    /\ pc' = "load"
    /\ pdf' = "none"
    /\ runs' = runs + 1
    /\ loadCalls' = 1
    /\ renderCalls' = ZeroCalls
    /\ adapterCalls' = ZeroCalls
    /\ failed' = {}
    /\ totalPages' = 0
    /\ i' = 0
    /\ UNCHANGED <<progress, isSettingsOpen, apiConfig, cfg>>
    /\ UNCHANGED <<imageBase64, textData, adapterVars, adapterObs>>

\* renderPageToImage resolves: the page is marked translating and
\* translatePageContent runs up to its first generateContent call.
GeminiRenderOk ==
    /\ UNCHANGED fnVars
    /\ rejectedCall' = FALSE
    /\ pc = "render"
    /\ \E img \in Images :
        /\ imageBase64' = img
        /\ translatedPages' = MarkTranslating(translatedPages, i, img)
    /\ adapterCalls' = [adapterCalls EXCEPT ![i + 1] = @ + 1]
    /\ attempt' = 1
    /\ requests' = 1
    /\ endpoint' = <<>>
    /\ pc' = "fetch"
    /\ lastError' = NoError
    /\ returned' = ""
    /\ raised' = NoError
    /\ sleeps' = <<>>
    /\ responses' = <<>>
    /\ UNCHANGED <<appState, progress, isSettingsOpen, apiConfig>>
    /\ UNCHANGED <<cfg, pdf, totalPages, i, textData>>
    /\ UNCHANGED <<runs, loadCalls, renderCalls, failed>>

\* One attempt of geminiService.translatePageContent settles. After the last
\* attempt `throw lastError` is inside the outer try of the function: its
\* catch block returns the failure HTML, so the call resolves.
GeminiResponse ==
    /\ UNCHANGED fnVars
    /\ rejectedCall' = FALSE
    /\ pc = "fetch"
    /\ \E r \in GeminiResponses :
        IF r.kind = "html"
        THEN /\ \E h \in Htmls : returned' = h
             /\ pc' = "settled"
             /\ UNCHANGED <<lastError, sleeps, responses>>
        ELSE LET e == [kind |-> r.kind, status |-> 0, attempt |-> attempt] IN
             /\ responses' = Append(responses, e)
             /\ lastError' = e
             /\ IF attempt < MAX_RETRIES
                THEN /\ sleeps' = Append(sleeps, OpenAIDelay(attempt))
                     /\ pc' = "sleep"
                     /\ returned' = returned
                ELSE /\ returned' = GeminiFailedHtml(lastError')
                     /\ pc' = "settled"
                     /\ sleeps' = sleeps
    /\ raised' = NoError
    /\ UNCHANGED <<appVars, cfg, pdf, totalPages, i, imageBase64, textData>>
    /\ UNCHANGED <<attempt, requests, endpoint, runObs>>

\* processPDF after `await translatePageContent(imageBase64)`: there is no
\* per-page try; the page is marked completed with what the call returned.
GeminiPageSettled ==
    /\ UNCHANGED fnVars
    /\ rejectedCall' = FALSE
    /\ pc = "settled"
    /\ translatedPages' = MarkCompleted(translatedPages, i, returned)
    /\ progress' = ProgressAfterPage(progress, i)
    /\ i' = i + 1
    /\ IF LoopContinues(i + 1, totalPages)
       THEN /\ pc' = "render"
            /\ appState' = appState
            /\ renderCalls' = [renderCalls EXCEPT ![i + 2] = @ + 1]
       ELSE /\ pc' = "idle"
            /\ appState' = "COMPLETED"
            /\ renderCalls' = renderCalls
    /\ imageBase64' = ""
    /\ attempt' = 0
    /\ lastError' = NoError
    /\ returned' = ""
    /\ raised' = NoError
    /\ requests' = 0
    /\ endpoint' = <<>>
    /\ sleeps' = <<>>
    /\ responses' = <<>>
    /\ UNCHANGED <<isSettingsOpen, apiConfig, cfg, pdf, totalPages, textData>>
    /\ UNCHANGED <<runs, loadCalls, adapterCalls, failed>>

GeminiNext ==
    \/ GeminiStartRun
    \/ LoadFail
    \/ LoadOk
    \/ RenderFail
    \/ GeminiRenderOk
    \/ GeminiResponse
    \/ SleepDone
    \/ GeminiPageSettled
    \/ Reset

GeminiSpec == Init /\ [][GeminiNext]_vars

\* ------------------------------------------- the text functions on their own
\* translateWithOpenAI resolves the endpoint for a base URL.
InitResolve ==
    /\ InitApp
    /\ fnName = "none"
    /\ fnIn \in UrlInputs
    /\ fnOut = <<>>
    /\ fnFinish = "stop"

ResolveStep ==
    /\ fnName = "none"
    /\ fnOut' = ResolveEndpoint(Flat(fnIn))
    /\ fnName' = "resolved"
    /\ UNCHANGED <<rejectedCall, fnIn, fnFinish, appVars, runVars, adapterVars, runObs, adapterObs>>

\* The resolved endpoint is entered as the base URL and resolved again.
ResolveAgainStep ==
    /\ fnName = "resolved"
    /\ fnIn' = <<fnOut>>
    /\ fnOut' = ResolveEndpoint(fnOut)
    /\ fnName' = "resolved2"
    /\ UNCHANGED <<rejectedCall, fnFinish, appVars, runVars, adapterVars, runObs, adapterObs>>

NextResolve == ResolveStep \/ ResolveAgainStep

ResolveSpec == InitResolve /\ [][NextResolve]_vars

\* Values of choices[0].finish_reason.
FinishReasons == {"stop", "length", "content_filter"}

\* The messages of the two errors thrown for empty content, each as a text
\* of one piece.
FILTER_ERROR == <<"Content was filtered by the AI provider.">>
EMPTY_ERROR == <<"Empty response from API. The model might not support image inputs or the prompt.">>

\* The error thrown when the content of a completion is empty.
CompletionError(finish) ==
    IF finish = "content_filter" THEN FILTER_ERROR ELSE EMPTY_ERROR

\* translateWithOpenAI cleans the content of a completion.
InitClean ==
    /\ InitApp
    /\ fnName = "none"
    /\ fnIn \in ResponseInputs
    /\ fnOut = <<>>
    /\ fnFinish \in FinishReasons

\* The segment from `let text = ...content || ''` to `return text`: empty
\* content throws, anything else is cleaned and returned.
CleanStep ==
    /\ fnName = "none"
    /\ IF Flat(fnIn) = <<>>
       THEN /\ fnName' = "failed"
            /\ fnOut' = CompletionError(fnFinish)
       ELSE /\ fnName' = "cleaned"
            /\ fnOut' = CleanResponse(Flat(fnIn))
    /\ UNCHANGED <<rejectedCall, fnIn, fnFinish, appVars, runVars, adapterVars, runObs, adapterObs>>

NextClean == CleanStep

CleanSpec == InitClean /\ [][NextClean]_vars

\* --------------------------------------- the text backend's response body
\* JSON values of the fields read from the body: absent, null, a string, or
\* (for alternatives) an array of strings.
Undefined == [t |-> "undefined", v |-> ""]
Null == [t |-> "null", v |-> ""]
Str(s) == [t |-> "string", v |-> s]
Arr(xs) == [t |-> "array", v |-> xs]

\* JavaScript truthiness of these values.
Truthy(x) == x.t = "array" \/ (x.t = "string" /\ x.v # "")

\* a || b
Or(a, b) == IF Truthy(a) THEN a ELSE b

\* data.alternatives && data.alternatives[0]
FirstAlternative(alts) ==
    IF Truthy(alts)
    THEN IF Len(alts.v) >= 1 THEN alts.v[1] ELSE Undefined
    ELSE alts

\* data.data || data.text || (data.alternatives && data.alternatives[0])
\* (faulty variant: data.text is read before data.data)
SelectTranslationMut(body) ==
    Or(Or(body.text, body.data), FirstAlternative(body.alternatives))
SelectTranslation(body) ==
    Or(Or(body.data, body.text), FirstAlternative(body.alternatives))

\* The HTML wrapper around the translated text, as a sequence of pieces.
DeepLXHtml(s) ==
    <<"<div class=\"deeplx-translation\"><h3>Translated by DeepLX (Text Only)</h3><p>",
      s, "</p></div>">>

INVALID_FORMAT == <<"Invalid response format from DeepLX">>

\* Bodies of a 200 response of the text backend.
DeepLXBodies ==
    [data : {Undefined, Null, Str(""), Str("A")},
     text : {Undefined, Null, Str(""), Str("B")},
     alternatives : {Undefined, Null, Arr(<<>>), Arr(<<Str("")>>),
                     Arr(<<Str("C")>>), Arr(<<Str("C"), Str("D")>>)}]

InitSelect ==
    /\ InitApp
    /\ fnName = "none"
    /\ fnIn \in DeepLXBodies
    /\ fnOut = <<>>
    /\ fnFinish = "stop"

\* translateWithDeepLX from `const data = await response.json()` to the
\* return or the throw.
SelectStep ==
    /\ fnName = "none"
    /\ LET translatedText == SelectTranslation(fnIn) IN
       IF ~Truthy(translatedText)
       THEN /\ fnName' = "failed"
            /\ fnOut' = INVALID_FORMAT
       ELSE /\ fnName' = "selected"
            /\ fnOut' = DeepLXHtml(translatedText.v)
    /\ UNCHANGED <<rejectedCall, fnIn, fnFinish, appVars, runVars, adapterVars, runObs, adapterObs>>

NextSelect == SelectStep

SelectSpec == InitSelect /\ [][NextSelect]_vars

\* ------------------------------------------- the persisted configuration
\* What localStorage holds under pdf_translate_config: nothing (present is
\* FALSE), or an object written by this or an earlier version of the app.
SavedConfigs ==
    [present : {TRUE}, provider : {MISSING, "", "openai", "deeplx", "gemini"},
     baseUrl : {"", "https://api.openai.com/v1"}, apiKey : {"", "sk-key"},
     modelName : {"gpt-4o", "gpt-4o-mini"}]
        \cup [present : {FALSE}, provider : {MISSING}, baseUrl : {""},
              apiKey : {""}, modelName : {""}]

InitLoad ==
    /\ InitApp
    /\ fnName = "none"
    /\ fnIn \in SavedConfigs
    /\ fnOut = <<>>
    /\ fnFinish = "stop"

\* App is mounted: useState runs the initializer.
LoadStep ==
    /\ fnName = "none"
    /\ apiConfig' = LoadConfig(fnIn)
    /\ fnName' = "loaded"
    /\ UNCHANGED <<rejectedCall, fnIn, fnOut, fnFinish>>
    /\ UNCHANGED <<appState, translatedPages, progress, isSettingsOpen>>
    /\ UNCHANGED <<runVars, adapterVars, runObs, adapterObs>>

\* translatePageContent is called with the loaded configuration.
RouteStep ==
    /\ fnName = "loaded"
    /\ fnOut' = <<AdapterFor(apiConfig)>>
    /\ fnName' = "routed"
    /\ UNCHANGED <<rejectedCall, fnIn, fnFinish, appVars, runVars, adapterVars, runObs, adapterObs>>

NextLoad == LoadStep \/ RouteStep

LoadSpec == InitLoad /\ [][NextLoad]_vars

\* ================================================================= claims
Terminal == {"completed", "error"}
FatalStatuses == {400, 401, 403, 404}

\* Number of page results that are neither pending nor translating.
TerminalCount ==
    Cardinality({k \in 1..Len(translatedPages) :
                    translatedPages[k].status \in Terminal})

\* The run has ended: no processPDF call is active and one has been started.
RunEnded == pc = "idle" /\ runs > 0

\* C1: for a document with N pages, when the run ends there are exactly N page
\* results, each completed or error, and progress.current = N.
C1_RunEndsAllTerminal ==
    (RunEnded /\ pdf = "doc") =>
        /\ Len(translatedPages) = totalPages
        /\ \A k \in 1..Len(translatedPages) :
              translatedPages[k].status \in Terminal
        /\ progress.current = totalPages

\* C2: if translatePageContent fails for page p, page p is recorded as error
\* with its message, every later page is still rendered and translated, and
\* the run ends in COMPLETED, not ERROR.
C2_PageFailureDoesNotAbort ==
    RunEnded =>
        \A p \in failed :
            /\ appState # "ERROR"
            /\ translatedPages[p].status = "error"
            /\ translatedPages[p].errorMessage # NoMessage
            /\ \A q \in (p + 1)..totalPages :
                  renderCalls[q] >= 1 /\ adapterCalls[q] >= 1

\* C3: in the vision adapter an attempt that receives HTTP 400, 401, 403 or
\* 404 is the last one: the call settles at once with that same error, no
\* further request is issued and no backoff sleep follows it; on the first
\* attempt the backend has been called exactly once.
C3_FatalStopsRetry ==
    cfg.provider = "openai" =>
        \A k \in 1..Len(responses) :
            responses[k].status \in FatalStatuses =>
                /\ k = Len(responses)
                /\ pc = "settled"
                /\ requests = k
                /\ Len(sleeps) = k - 1
                /\ raised = responses[k]
                /\ (k = 1 => requests = 1 /\ sleeps = <<>>)

C3_Witness ==
    /\ cfg.provider = "openai"
    /\ pc = "settled"
    /\ Len(responses) = 2
    /\ responses[2].status = 404
    /\ raised = responses[2]
    /\ requests = 2

\* C4: in the vision adapter, when every attempt fails with a retryable
\* error, exactly 3 requests are issued, the sleeps are 1000 ms then 2000 ms
\* (1000 * 2^(k-1) after attempt k), none follows the third attempt, and the
\* error raised is the one of the third attempt.
C4_RetryableExhausts ==
    cfg.provider = "openai" =>
        /\ \A k \in 1..Len(sleeps) : sleeps[k] = 1000 * Pow2(k - 1)
        /\ Len(sleeps) <= 2
        /\ (/\ pc = "settled"
            /\ raised.kind \notin {"none", "nokey"}
            /\ \A k \in 1..Len(responses) :
                  responses[k].status \notin FatalStatuses)
           => /\ requests = 3
              /\ Len(responses) = 3
              /\ sleeps = <<1000, 2000>>
              /\ raised = responses[3]
              /\ raised.attempt = 3

C4_Witness ==
    /\ cfg.provider = "openai"
    /\ pc = "settled"
    /\ Len(responses) = 3
    /\ responses[1].kind = "network"
    /\ responses[2].status = 500
    /\ responses[3].kind = "filter"
    /\ raised = responses[3]

\* C5: the text-endpoint adapter follows the same retry policy as the vision
\* adapter: at most 3 attempts, a sleep of 1000 * 2^(k-1) ms after failed
\* attempt k < 3 (the vision adapter's delay), none after the last attempt,
\* and the last observed error is raised.
C5_SameRetryPolicy ==
    cfg.provider = "deeplx" =>
        /\ \A k \in 1..Len(sleeps) :
              sleeps[k] = 1000 * Pow2(k - 1) /\ sleeps[k] = OpenAIDelay(k)
        /\ Len(sleeps) <= 2
        /\ requests <= 3
        /\ (pc = "settled" /\ raised # NoError)
           => /\ requests = 3
              /\ Len(responses) = 3
              /\ sleeps = <<1000, 2000>>
              /\ raised = responses[3]
              /\ raised.attempt = 3

C5_Witness ==
    /\ cfg.provider = "deeplx"
    /\ pc = "settled"
    /\ Len(responses) = 3
    /\ sleeps = <<1000, 2000>>
    /\ raised = responses[3]

\* C6: whenever a run ends in ERROR, the failure happened before the per-page
\* loop started and no page result is populated (no image, no translation,
\* no status other than pending).
C6_ErrorOnlyBeforeLoop ==
    appState = "ERROR" =>
        /\ pdf = "none"
        /\ \A k \in 1..Len(translatedPages) :
              /\ translatedPages[k].status = "pending"
              /\ translatedPages[k].originalImage = ""
              /\ translatedPages[k].translatedHtml = ""

\* C7: when loading the document fails, the run goes from PROCESSING to
\* ERROR, the page-result sequence is empty and stays empty, and loadPdf has
\* been called once only (no retry).
C7_LoadFailure ==
    [][(pc = "load" /\ pc' # "load" /\ pdf' = "none") =>
          /\ appState = "PROCESSING"
          /\ appState' = "ERROR"
          /\ translatedPages = <<>>
          /\ translatedPages' = <<>>
          /\ loadCalls = 1
          /\ loadCalls' = 1
          /\ pc' = "idle"]_vars

C7_Witness ==
    /\ appState = "ERROR"
    /\ pdf = "none"
    /\ runs = 2
    /\ progress.total > 0
    /\ translatedPages = <<>>

\* C8: at every observable state progress.current equals the number of page
\* results that are neither pending nor translating, and progress.total
\* equals the page count of the current session.
C8_ProgressMatchesPages ==
    /\ progress.current = TerminalCount
    /\ progress.total = Len(translatedPages)

\* C9 (as stated): from the moment a run enters PROCESSING until it ends,
\* progress.current never decreases and progress.total never changes.
C9_Original ==
    [][appState = "PROCESSING" =>
          /\ progress'.current >= progress.current
          /\ progress'.total = progress.total]_vars

\* C9 (amended): from the moment the document of a run has been loaded and
\* progress set to {0, N} until the run ends, progress.current never
\* decreases and progress.total never changes, in every run.
C9_ProgressMonotone ==
    [][(appState = "PROCESSING" /\ pdf = "doc") =>
          /\ progress'.current >= progress.current
          /\ progress'.total = progress.total
          /\ progress.total = totalPages]_vars

C9_Witness ==
    /\ runs = 2
    /\ appState = "PROCESSING"
    /\ pdf = "doc"
    /\ progress = [current |-> 1, total |-> 2]

Rank(st) == IF st = "pending" THEN 0 ELSE IF st = "translating" THEN 1 ELSE 2

\* C10: within a run a page result's status only moves forward, one stage at
\* a time, along pending -> translating -> (completed | error); a completed
\* or error page is never modified again; and no page result is deleted: once
\* the document is loaded the number of page results equals the page count.
C10_ForwardOnly ==
    [][appState = "PROCESSING" =>
          /\ Len(translatedPages') >= Len(translatedPages)
          /\ \A k \in 1..Len(translatedPages) :
                LET old == translatedPages[k]
                    new == translatedPages'[k]
                IN /\ Rank(new.status) >= Rank(old.status)
                   /\ (new.status # old.status =>
                          Rank(new.status) = Rank(old.status) + 1)
                   /\ (old.status \in Terminal => new = old)
          /\ (pdf = "doc" =>
                 /\ Len(translatedPages) = totalPages
                 /\ Len(translatedPages') = totalPages)]_vars

C10_Witness ==
    /\ appState = "PROCESSING"
    /\ Len(translatedPages) = 2
    /\ translatedPages[1].status \in Terminal
    /\ translatedPages[2].status = "translating"

TranslatingCount ==
    Cardinality({k \in 1..Len(translatedPages) :
                    translatedPages[k].status = "translating"})

\* C11: pages are processed strictly sequentially: at most one page is
\* translating at any time, and the render or the translation of a page is
\* requested only when every earlier page is completed or error.
C11_Sequential ==
    /\ TranslatingCount <= 1
    /\ \A q \in PageIds :
          (renderCalls[q] >= 1 \/ adapterCalls[q] >= 1) =>
              /\ q <= Len(translatedPages)
              /\ \A p \in 1..(q - 1) : translatedPages[p].status \in Terminal

C11_Witness ==
    /\ pc = "fetch"
    /\ i = 1
    /\ renderCalls[2] = 1
    /\ adapterCalls[2] = 1
    /\ translatedPages[1].status = "completed"
    /\ translatedPages[2].status = "translating"

\* C12: the session has a single writer: a processPDF call is active exactly
\* while the app state is PROCESSING, and a run is started only from IDLE or
\* ERROR, when no other run is active, so two runs never interleave.
C12_SingleWriter ==
    [][/\ (pc # "idle") <=> (appState = "PROCESSING")
       /\ (pc' # "idle") <=> (appState' = "PROCESSING")
       /\ runs' # runs =>
             /\ appState \in {"IDLE", "ERROR"}
             /\ pc = "idle"
             /\ appState' = "PROCESSING"
             /\ runs' = runs + 1]_vars

C12_Witness ==
    /\ runs = 2
    /\ appState = "PROCESSING"
    /\ pc = "load"
    /\ progress.total = 2

\* C20: for every page and every sequence of backend responses an adapter
\* call issues at most 3 network requests, and translatePageContent is called
\* at most once per page of a run.
C20_BoundedRequests ==
    /\ requests <= 3
    /\ (pc \in {"fetch", "sleep"} => requests = attempt /\ requests >= 1)
    /\ \A p \in PageIds : adapterCalls[p] <= 1

C20_Witness ==
    /\ cfg.provider = "deeplx"
    /\ pc = "settled"
    /\ i = 1
    /\ requests = 3
    /\ Len(responses) = 2
    /\ raised = NoError
    /\ adapterCalls[1] = 1
    /\ adapterCalls[2] = 1

\* The text consists of white space only (or is empty).
OnlyWhiteSpace(t) == \A k \in 1..Len(t) : t[k] \in {" ", "\t", "\n", "\r"}

\* C16: given empty or whitespace-only text the text-endpoint adapter
\* resolves with the fixed placeholder, issues no request and sleeps for no
\* backoff, and the orchestrator records the page as completed with that
\* placeholder.
C16_BlankTextShortCircuit ==
    /\ [](/\ cfg.provider = "deeplx"
          /\ pc \in {"fetch", "sleep", "settled"}
          /\ OnlyWhiteSpace(textData)
          => /\ pc = "settled"
             /\ returned = NO_TEXT_HTML
             /\ raised = NoError
             /\ requests = 0
             /\ sleeps = <<>>
             /\ responses = <<>>)
    /\ [][(/\ cfg.provider = "deeplx"
           /\ pc = "settled"
           /\ OnlyWhiteSpace(textData)
           /\ pc' # "settled")
          => /\ translatedPages'[i + 1].status = "completed"
             /\ translatedPages'[i + 1].translatedHtml = NO_TEXT_HTML
             /\ translatedPages'[i + 1].errorMessage = NoMessage]_vars

C16_Witness ==
    /\ cfg.provider = "deeplx"
    /\ pc = "settled"
    /\ textData = <<"\n", "\t">>
    /\ returned = NO_TEXT_HTML
    /\ requests = 0

\* ---------------------------------------------------------------------- C13
\* C13: for the base URLs host, host/v1 and host/v1/chat/completions, each
\* also with surrounding white space or one trailing slash, the resolved
\* endpoint is host/v1/chat/completions.
C13_CommonUrls ==
    (fnName = "resolved" /\ fnIn \in CommonUrls)
        => fnOut = HOST \o V1_PATH \o COMPLETIONS_PATH

C13_Witness ==
    /\ fnName = "resolved"
    /\ fnIn = <<SPACE, HOST, V1_PATH, SLASH, SPACE>>

\* ---------------------------------------------------------------------- C14
\* C14: resolution yields an endpoint for every base URL (a text that ends
\* with the completions path), and resolving that endpoint again yields the
\* same endpoint.
C14_Idempotent ==
    /\ fnName \in {"resolved", "resolved2"} => EndsWith(fnOut, COMPLETIONS_PATH)
    /\ fnName = "resolved2" => fnOut = Flat(fnIn)

C14_Witness ==
    /\ fnName = "resolved2"
    /\ fnOut = HOST \o <<"/", "v", "2">> \o V1_PATH \o COMPLETIONS_PATH

\* ---------------------------------------------------------------------- C15
\* The base URL after trimming and removal of one trailing slash.
BaseUrl == RemoveTrailingSlash(Trim(Flat(fnIn)))

\* A text that ends with /v or /V and a digit.
EndsWithVersion(s) ==
    /\ Len(s) >= 3
    /\ s[Len(s) - 2] = "/"
    /\ s[Len(s) - 1] \in {"v", "V"}
    /\ s[Len(s)] \in {"0", "1", "2", "3", "4", "5", "6", "7", "8", "9"}

\* C15 as stated: a base URL that ends with a version segment (/v1, /v2,
\* /V1) resolves to that URL with only /chat/completions appended.
C15_Original ==
    (fnName = "resolved" /\ EndsWithVersion(BaseUrl))
        => fnOut = BaseUrl \o COMPLETIONS_PATH

\* C15 amended: only the segment /v1, in lower case, is recognised. A base
\* URL that ends with /v1 resolves to that URL with /chat/completions
\* appended; one that ends with another version segment (/v2, /V1) resolves
\* to that URL with /v1/chat/completions appended.
C15_V1Only ==
    (fnName = "resolved" /\ EndsWithVersion(BaseUrl))
        => IF EndsWith(BaseUrl, V1_PATH)
           THEN fnOut = BaseUrl \o COMPLETIONS_PATH
           ELSE fnOut = BaseUrl \o V1_PATH \o COMPLETIONS_PATH

C15_Witness ==
    /\ fnName = "resolved"
    /\ fnIn = <<HOST, <<"/", "v", "2">>, SLASH>>
    /\ fnOut = HOST \o <<"/", "v", "2">> \o V1_PATH \o COMPLETIONS_PATH

\* ---------------------------------------------------------------------- C17
\* The text s contains the text pat.
Contains(s, pat) ==
    \E p \in 1..Len(s) : StartsWith(SubSeq(s, p, Len(s)), pat)

\* C17: a response wrapped in an opening fence (with or without html) and a
\* closing fence, also with white space or a newline before the opening
\* fence, is stored without either fence.
C17_FencesRemoved ==
    (fnName = "cleaned" /\ fnIn \in FencedInputs) => ~Contains(fnOut, FENCE)

\* ---------------------------------------------------------------------- C18
\* The literal tag for an escaped tag piece: &lt; becomes <, &gt; becomes >.
Literal(p) ==
    LET name == SubSeq(p, Len(LT) + 1, Len(p) - Len(GT))
    IN <<"<">> \o name \o <<">">>

\* What a piece of a completion text is to become.
Expected(p) == IF p \in EscapedAllowed THEN Literal(p) ELSE p

\* C18: every escaped opening or closing tag with a name in {sup, sub, b, i,
\* strong, em} (in either case, as tag names are) is replaced by the literal
\* tag, every escaped tag with another name and all other text is left
\* unchanged; no escaped tag of the set remains in any cleaned response.
C18_AllowListUnescaped ==
    /\ (fnName = "cleaned" /\ fnIn \in TagInputs)
          => fnOut = Flat([k \in 1..Len(fnIn) |-> Expected(fnIn[k])])
    /\ fnName = "cleaned"
          => \A n \in TagNames :
                /\ ~Contains(fnOut, LT \o n \o GT)
                /\ ~Contains(fnOut, LT_SLASH \o n \o GT)

C18_Witness ==
    /\ fnName = "cleaned"
    /\ fnIn = <<<<"&", "l", "t", ";", "/", "e", "m", "&", "g", "t", ";">>, <<"&", "l", "t", ";", "d", "i", "v", "&", "g", "t", ";">>>>
    /\ fnOut = <<"<", "/", "e", "m", ">", "&", "l", "t", ";", "d", "i", "v", "&", "g", "t", ";">>

\* ---------------------------------------------------------------------- C19
\* C19: once a run has entered PROCESSING it eventually reaches COMPLETED or
\* ERROR, provided every collaborator call eventually returns or fails.
C19_RunTerminates ==
    (appState = "PROCESSING") ~> (appState \in {"COMPLETED", "ERROR"})

\* A run that has ended after the vision adapter used up all its attempts on
\* the last page, with both backoff sleeps.
C19_Witness ==
    /\ appState = "COMPLETED"
    /\ translatedPages # <<>>
    /\ translatedPages[Len(translatedPages)].status = "error"
    /\ cfg.provider = "openai"

\* ---------------------------------------------------------------------- C21
\* C21: a document with zero pages yields progress {current: 0, total: 0},
\* an empty page-result sequence, no render or translation call, and app
\* state COMPLETED directly after loading (IDLE once the user has reset).
C21_ZeroPages ==
    /\ []((pdf = "doc" /\ totalPages = 0)
            => /\ progress = [current |-> 0, total |-> 0]
               /\ translatedPages = <<>>
               /\ renderCalls = ZeroCalls
               /\ adapterCalls = ZeroCalls
               /\ pc = "idle"
               /\ appState \in {"COMPLETED", "IDLE"})
    /\ [][(pc = "load" /\ pdf' = "doc" /\ totalPages' = 0)
            => (appState' = "COMPLETED" /\ pc' = "idle")]_vars

\* The second run loads a document without pages after a first run with
\* pages.
C21_Witness ==
    /\ runs = 2
    /\ pdf = "doc"
    /\ totalPages = 0
    /\ appState = "COMPLETED"

\* ---------------------------------------------------------------------- C22
\* The changes of the app state that a run and a reset may make.
AppTransitions ==
    {<<"IDLE", "PROCESSING">>, <<"ERROR", "PROCESSING">>,
     <<"PROCESSING", "COMPLETED">>, <<"PROCESSING", "ERROR">>,
     <<"COMPLETED", "IDLE">>}

\* C22: the app state changes only from IDLE or ERROR to PROCESSING, from
\* PROCESSING to COMPLETED or ERROR, and from COMPLETED to IDLE; COMPLETED
\* and ERROR are entered from PROCESSING only.
C22_AppTransitions ==
    [][appState' # appState => <<appState, appState'>> \in AppTransitions]_vars

\* Two runs have been started and the second has been reset.
C22_Witness ==
    /\ appState = "IDLE"
    /\ runs = 2

\* ---------------------------------------------------------------------- C23
\* C23: in the Gemini variant, once all 3 attempts of a translatePageContent
\* call have failed, the call raises the last observed error, and the
\* orchestrator records the page as failed.
C23_GeminiReraises ==
    /\ []((pc = "settled" /\ Len(responses) = MAX_RETRIES)
            => raised = responses[MAX_RETRIES])
    /\ [][(pc = "settled" /\ Len(responses) = MAX_RETRIES /\ pc' # "settled")
            => translatedPages'[i + 1].status = "error"]_vars

\* ---------------------------------------------------------------------- C24
\* C24: while a request for a page is in flight, and between the requests of
\* one adapter call, that page is shown as translating with a non-empty
\* image: the page is marked before the first request is issued.
C24_MarkedBeforeRequest ==
    (pc \in {"fetch", "sleep"})
        => /\ requests >= 1
           /\ translatedPages[i + 1].status = "translating"
           /\ translatedPages[i + 1].originalImage # ""
           /\ translatedPages[i + 1].originalImage = imageBase64

\* The first request for the second page is in flight.
C24_Witness ==
    /\ pc = "fetch"
    /\ i = 1
    /\ requests = 1
    /\ translatedPages[2].status = "translating"

\* ---------------------------------------------------------------------- C25
\* C25: in the text-endpoint adapter every failure (a non-OK status, 400,
\* 401, 403 and 404 included, a network failure, an invalid response
\* format) is followed by a backoff and another attempt while attempts
\* remain; an error is raised only after exactly 3 requests have failed.
C25_AllRetryable ==
    /\ []((cfg.provider = "deeplx" /\ raised # NoError)
            => (requests = 3 /\ Len(responses) = 3))
    /\ [][(/\ cfg.provider = "deeplx"
           /\ pc = "fetch"
           /\ Len(responses') = Len(responses) + 1
           /\ attempt < 3)
            => (pc' = "sleep" /\ raised' = NoError)]_vars

\* The third request of a call has failed with a non-OK status.
C25_Witness ==
    /\ cfg.provider = "deeplx"
    /\ pc = "settled"
    /\ requests = 3
    /\ raised.kind = "deeplxhttp"
    /\ raised.attempt = 3

\* ---------------------------------------------------------------------- C26
\* C26: in the vision adapter every failure other than HTTP 400, 401, 403 or
\* 404 (network failure, status 500, non-JSON content type, empty completion
\* content, content-filter rejection) is followed by a backoff and another
\* attempt while fewer than 3 attempts have been made.
C26_OthersRetryable ==
    [][(/\ cfg.provider = "openai"
        /\ pc = "fetch"
        /\ Len(responses') = Len(responses) + 1
        /\ responses'[Len(responses')].status \notin FatalStatuses
        /\ attempt < 3)
         => /\ pc' = "sleep"
            /\ raised' = NoError
            /\ Len(sleeps') = Len(sleeps) + 1]_vars

\* A call goes on to its third attempt after a content-filter rejection and
\* a response without JSON content type.
C26_Witness ==
    /\ cfg.provider = "openai"
    /\ pc = "fetch"
    /\ attempt = 3
    /\ Len(responses) = 2
    /\ responses[1].kind = "filter"
    /\ responses[2].kind = "nonjson"

\* ---------------------------------------------------------------------- C27
\* C27: a completion whose finish_reason is content_filter is treated as a
\* failure with the content-filter error, whatever its content.
C27_FilterAlwaysFails ==
    (fnName \in {"cleaned", "failed"} /\ fnFinish = "content_filter")
        => (fnName = "failed" /\ fnOut = FILTER_ERROR)

\* ---------------------------------------------------------------------- C28
\* A field that holds a non-empty string.
Present(x) == x.t = "string" /\ x.v # ""

\* C28: the text-endpoint adapter takes the translated string from the first
\* non-empty of data, text and alternatives[0], in that order, and fails
\* with the invalid-response-format error when none of the three is present
\* and non-empty (an empty alternatives list included).
C28_FirstNonEmpty ==
    fnName \in {"selected", "failed"} =>
        LET alts == fnIn.alternatives
            hasAlt == alts.t = "array" /\ Len(alts.v) >= 1 /\ Present(alts.v[1])
        IN IF Present(fnIn.data)
           THEN fnName = "selected" /\ fnOut[2] = fnIn.data.v
           ELSE IF Present(fnIn.text)
           THEN fnName = "selected" /\ fnOut[2] = fnIn.text.v
           ELSE IF hasAlt
           THEN fnName = "selected" /\ fnOut[2] = alts.v[1].v
           ELSE fnName = "failed" /\ fnOut = INVALID_FORMAT

\* data is empty, text is null: the first alternative is taken.
C28_Witness ==
    /\ fnName = "selected"
    /\ fnIn.data = Str("")
    /\ fnIn.text = Null
    /\ fnIn.alternatives = Arr(<<Str("C"), Str("D")>>)
    /\ fnOut[2] = "C"

\* ---------------------------------------------------------------------- C29
\* C29: in every reachable state a page result carries a non-empty
\* translated HTML fragment if and only if its status is completed, and an
\* error message if and only if its status is error.
C29_HtmlIffCompleted ==
    \A k \in 1..Len(translatedPages) :
        /\ translatedPages[k].translatedHtml # ""
              <=> translatedPages[k].status = "completed"
        /\ translatedPages[k].errorMessage # NoMessage
              <=> translatedPages[k].status = "error"

\* ---------------------------------------------------------------------- C30
\* C30: the configuration a run uses (provider, endpoint, credential, model)
\* is fixed when the run starts; it changes only at the start of a run,
\* where it becomes the configuration saved last, and saving settings while
\* the run is in PROCESSING leaves it as it is.
C30_ConfigFixedPerRun ==
    /\ [][cfg' # cfg => (pc = "idle" /\ pc' = "load" /\ cfg' = apiConfig)]_vars
    /\ [][(appState = "PROCESSING" /\ apiConfig' # apiConfig)
            => (cfg' = cfg /\ pc' = pc)]_vars

\* Other settings have been saved while the second page of a run is waiting
\* for its response.
C30_Witness ==
    /\ appState = "PROCESSING"
    /\ pc = "fetch"
    /\ i = 1
    /\ cfg.provider = "openai"
    /\ apiConfig.provider = "deeplx"

\* ---------------------------------------------------------------------- C31
\* C31: a persisted configuration without a provider field is loaded with
\* provider 'openai' and its other fields as persisted, and
\* translatePageContent selects the text-endpoint adapter if and only if the
\* provider is 'deeplx', the vision adapter for every other value.
C31_ProviderDefaulted ==
    /\ (fnName \in {"loaded", "routed"} /\ fnIn.present /\ fnIn.provider = MISSING)
          => /\ apiConfig.provider = "openai"
             /\ apiConfig.baseUrl = fnIn.baseUrl
             /\ apiConfig.apiKey = fnIn.apiKey
             /\ apiConfig.modelName = fnIn.modelName
    /\ fnName = "routed"
          => /\ fnOut = <<"deeplx">> <=> apiConfig.provider = "deeplx"
             /\ fnOut # <<"deeplx">> => fnOut = <<"openai">>

\* A configuration persisted without provider has been routed to the vision
\* adapter.
C31_Witness ==
    /\ fnName = "routed"
    /\ fnIn.present
    /\ fnIn.provider = MISSING
    /\ fnIn.apiKey = "sk-key"
    /\ fnOut = <<"openai">>

\* ---------------------------------------------------------------------- C32
\* C32: with the text-endpoint provider the requests of a run go to the
\* configured base URL exactly as entered, and with an empty base URL an
\* upload starts a run, whose requests go to the default local address.
C32_VerbatimOrDefault ==
    /\ (cfg.provider = "deeplx" /\ pc \in {"fetch", "sleep"})
          => endpoint = <<IF cfg.baseUrl = ""
                          THEN "http://localhost:1188/translate"
                          ELSE cfg.baseUrl>>
    /\ (/\ appState \in {"IDLE", "ERROR"}
        /\ apiConfig.provider = "deeplx"
        /\ apiConfig.baseUrl = ""
        /\ runs < MaxRuns)
          => ENABLED StartRun

\* ---------------------------------------------------------------------- C33
\* C33: whenever page k of the N page results has status translating, the
\* pages before it are all completed or error, the pages after it are all
\* pending, and progress.current = k - 1; the page results are in page
\* order, pageNumber being the position.
C33_PagesInOrder ==
    /\ \A k \in 1..Len(translatedPages) : translatedPages[k].pageNumber = k
    /\ \A k \in 1..Len(translatedPages) :
          translatedPages[k].status = "translating"
             => /\ \A j \in 1..(k - 1) : translatedPages[j].status \in Terminal
                /\ \A j \in (k + 1)..Len(translatedPages) :
                      translatedPages[j].status = "pending"
                /\ progress.current = k - 1
                /\ progress.total = Len(translatedPages)
                /\ appState = "PROCESSING"

\* The second of two pages is translating after the first has failed.
C33_Witness ==
    /\ Len(translatedPages) = 2
    /\ translatedPages[1].status = "error"
    /\ translatedPages[2].status = "translating"

\* C34: a processPDF call with provider 'openai' and an empty API key, or with
\* provider 'deeplx' and an empty base URL, leaves app state, page results and
\* progress unchanged, calls neither the loader, the renderer nor an adapter,
\* and ends with the settings dialog open; no step taken while such a
\* configuration is current starts a run, and every rejected call had such a
\* configuration.
C34_Unusable(c) ==
    \/ (c.provider = "openai" /\ c.apiKey = "")
    \/ (c.provider = "deeplx" /\ c.baseUrl = "")

C34_RejectedCallIsFrame ==
    [][/\ rejectedCall' =>
            /\ C34_Unusable(apiConfig)
            /\ isSettingsOpen'
            /\ UNCHANGED <<appState, translatedPages, progress, apiConfig>>
            /\ UNCHANGED <<runVars, adapterVars, runObs, adapterObs>>
       /\ (appState \in {"IDLE", "ERROR"} /\ C34_Unusable(apiConfig)) =>
            /\ UNCHANGED <<appState, translatedPages, progress>>
            /\ UNCHANGED <<runs, loadCalls, renderCalls, adapterCalls, requests>>
            /\ pc' = "idle"]_vars

\* A rejected call made after an earlier run has left page results and
\* progress behind, with the DeepLX provider and no endpoint URL.
C34_Witness ==
    /\ rejectedCall
    /\ apiConfig.provider = "deeplx"
    /\ apiConfig.baseUrl = ""
    /\ runs > 0
    /\ Len(translatedPages) > 0
    /\ progress.total > 0

\* C35: every run, later ones included, begins its page loop with progress
\* {0, N} and exactly N pending pages with empty image and HTML; while a run
\* is loading its document the page list is empty, and during the loop the
\* pages not yet reached are pending and empty, so no page result of an
\* earlier run is visible once the run has entered PROCESSING.
C35_FreshPage(p, k) ==
    /\ p.pageNumber = k
    /\ p.originalImage = ""
    /\ p.translatedHtml = ""
    /\ p.status = "pending"

C35_LoopStarts ==
    /\ pc = "load"
    /\ pc' \in {"render", "extract", "idle"}
    /\ appState' # "ERROR"

C35_RunStartsFresh ==
    /\ [](appState = "PROCESSING" =>
            /\ pc = "load" => translatedPages = <<>>
            /\ pc # "load" =>
                 /\ Len(translatedPages) = totalPages
                 /\ \A k \in (i + 2)..totalPages :
                        C35_FreshPage(translatedPages[k], k))
    /\ [][C35_LoopStarts =>
            /\ progress' = [current |-> 0, total |-> totalPages']
            /\ Len(translatedPages') = totalPages'
            /\ \A k \in 1..totalPages' :
                   C35_FreshPage(translatedPages'[k], k)]_vars

\* The second run stands at the head of its page loop.
C35_Witness ==
    /\ runs = 2
    /\ appState = "PROCESSING"
    /\ pc = "render"
    /\ i = 0
    /\ totalPages > 0
    /\ progress = [current |-> 0, total |-> totalPages]
    /\ \A k \in 1..totalPages : translatedPages[k].status = "pending"

\* C36: the reset changes only the app state, from COMPLETED to IDLE: every
\* step that leaves COMPLETED ends in IDLE with the page results, the
\* progress, the configuration and the settings dialog as they were, and
\* makes no collaborator call.
C36_ResetIsFrame ==
    [][(appState = "COMPLETED" /\ appState' # "COMPLETED") =>
            /\ appState' = "IDLE"
            /\ translatedPages' = translatedPages
            /\ progress' = progress
            /\ apiConfig' = apiConfig
            /\ isSettingsOpen' = isSettingsOpen
            /\ UNCHANGED <<runVars, adapterVars, runObs, adapterObs>>]_vars

\* After a reset the finished run's pages and progress are still in the state.
C36_Witness ==
    /\ appState = "IDLE"
    /\ runs > 0
    /\ Len(translatedPages) > 0
    /\ progress.total = Len(translatedPages)
    /\ \A k \in 1..Len(translatedPages) :
           translatedPages[k].status \in Terminal

\* C37: a vision adapter call with an empty API key raises the missing-key
\* error with no endpoint resolved, no request sent and no backoff slept, and
\* never waits for a response; inside a run the page is then recorded as
\* error with that message, progress advances, and the loop goes on to the
\* next page or completes the run.
C37_VisionWithoutKey ==
    /\ pc \in {"fetch", "sleep", "settled"}
    /\ cfg.provider # "deeplx"
    /\ cfg.apiKey = ""

C37_MissingKeyRaisedFirst ==
    /\ [](C37_VisionWithoutKey =>
            /\ pc = "settled"
            /\ raised.kind = "nokey"
            /\ endpoint = <<>>
            /\ requests = 0
            /\ sleeps = <<>>
            /\ responses = <<>>)
    /\ [][(C37_VisionWithoutKey /\ pc = "settled" /\ pc' # "settled") =>
            /\ translatedPages'[i + 1].status = "error"
            /\ translatedPages'[i + 1].errorMessage
                    = [kind |-> "nokey", status |-> 0]
            /\ \A k \in 1..Len(translatedPages) :
                   k # i + 1 => translatedPages'[k] = translatedPages[k]
            /\ progress'.current = i + 1
            /\ IF i + 1 < totalPages
               THEN /\ appState' = "PROCESSING"
                    /\ pc' = "render"
                    /\ i' = i + 1
               ELSE appState' = "COMPLETED"]_vars

\* The second page of a run is being rendered after the first one failed for
\* the missing key.
C37_Witness ==
    /\ appState = "PROCESSING"
    /\ pc = "render"
    /\ i = 1
    /\ cfg.provider # "deeplx"
    /\ cfg.apiKey = ""
    /\ translatedPages[1].status = "error"
    /\ translatedPages[1].errorMessage = [kind |-> "nokey", status |-> 0]
    /\ translatedPages[2].status = "pending"

====
